---- MODULE Spec2Model ----
(***************************************************************************)
(* State-machine model of the hex board of frewmack/catan-calculator:      *)
(* app/src/model/position.tsx (GridPosition, EdgePosition, VertexPosition) *)
(* and app/src/model/catan.tsx (Board, Tile).                              *)
(*                                                                         *)
(* Tiles are objects with identity: the heap maps a reference to the       *)
(* fields of a Tile, and a Board's tile map is a JavaScript Map, i.e. a    *)
(* sequence of <<key, reference>> entries in insertion order.              *)
(***************************************************************************)
EXTENDS Integers, Sequences, FiniteSets, TLC

VARIABLES heap, bd, hasCopy, last

vars == <<heap, bd, hasCopy, last>>

(***************************************************************************)
(* Bounds of the model.                                                    *)
(***************************************************************************)
\* coordinates of the positions handed to rotate and getNeighbors
MaxAdd == 1
\* rotation counts range over -MaxRot..MaxRot for GridPosition.rotate
MaxRot == 13
\* number of addTile calls on a board
MaxTiles == 2
\* number of operations applied to the boards once b is built
MaxOps == 3
\* number of operations applied to the board of the application
MaxAppOps == 2
\* the draws of Math.random: a + b*k for a, b in 0..MaxSeed
MaxSeed == 2

(***************************************************************************)
(* JavaScript arithmetic.                                                  *)
(***************************************************************************)
\* the % operator of JavaScript: the remainder takes the sign of the dividend
JsRem(a, n) == IF a >= 0 THEN a % n ELSE -((-a) % n)

\* Math.abs
MathAbs(x) == IF x < 0 THEN -x ELSE x

(***************************************************************************)
(* position.tsx: GridPosition, EdgePosition, VertexPosition.               *)
(***************************************************************************)
GridPosition(q, r) == [q |-> q, r |-> r]

EdgePosition(q, r, e) == [q |-> q, r |-> r, e |-> e]

VertexPosition(q, r, v) == [q |-> q, r |-> r, v |-> v]

getS(p) == (-p.q) - p.r

\* GridPosition.equals
equals(p, other) == p.q = other.q /\ p.r = other.r

directions == << <<1, 0>>, <<1, -1>>, <<0, -1>>, <<-1, 0>>, <<-1, 1>>, <<0, 1>> >>

getNeighbors_wrongTable(p) ==
    LET bad == << <<1, 0>>, <<1, 1>>, <<0, -1>>, <<-1, 0>>, <<-1, 1>>, <<0, 1>> >>
    IN  [i \in 1..6 |-> GridPosition(p.q + bad[i][1], p.r + bad[i][2])]

getNeighbors(p) ==
    [i \in 1..Len(directions) |->
        GridPosition(p.q + directions[i][1], p.r + directions[i][2])]

\* the rotation loop: n more steps of (q, r, s) -> (-s, -q, -r)
RECURSIVE rotateLoop(_, _)
rotateLoop(n, c) ==
    IF n <= 0 THEN c
    ELSE rotateLoop(n - 1, [q |-> -(c.s), r |-> -(c.q), s |-> -(c.r)])

rotate_noNormalize(p, pivot, rotations) ==
    LET normalizedRotations == JsRem(rotations, 6)
    IN  IF normalizedRotations = 0 THEN GridPosition(p.q, p.r)
        ELSE LET c == rotateLoop(normalizedRotations,
                        [q |-> p.q - pivot.q, r |-> p.r - pivot.r,
                         s |-> getS(p) - getS(pivot)])
             IN  GridPosition(c.q + pivot.q, c.r + pivot.r)

rotate(p, pivot, rotations) ==
    LET normalizedRotations == JsRem(JsRem(rotations, 6) + 6, 6)
    IN  IF normalizedRotations = 0 THEN GridPosition(p.q, p.r)
        ELSE LET c == rotateLoop(normalizedRotations,
                        [q |-> p.q - pivot.q, r |-> p.r - pivot.r,
                         s |-> getS(p) - getS(pivot)])
             IN  GridPosition(c.q + pivot.q, c.r + pivot.r)

(***************************************************************************)
(* Template-literal formatting of numbers, as a sequence of characters.    *)
(***************************************************************************)
DigitChar == <<"0", "1", "2", "3", "4", "5", "6", "7", "8", "9">>

RECURSIVE Digits(_)
Digits(n) == IF n < 10 THEN <<DigitChar[n + 1]>>
             ELSE Append(Digits(n \div 10), DigitChar[(n % 10) + 1])

\* `${n}` for an integer n
NumStr(n) == IF n < 0 THEN <<"-">> \o Digits(-n) ELSE Digits(n)

\* Board.getKey: 'getE' in position / 'getV' in position decide the format
getKey(position) ==
    IF "e" \in DOMAIN position
    THEN NumStr(position.q) \o <<",">> \o NumStr(position.r) \o <<",">> \o NumStr(position.e)
    ELSE IF "v" \in DOMAIN position
    THEN NumStr(position.q) \o <<",">> \o NumStr(position.r) \o <<",">> \o NumStr(position.v)
    ELSE NumStr(position.q) \o <<",">> \o NumStr(position.r)

(***************************************************************************)
(* catan.tsx: Tile.                                                        *)
(***************************************************************************)
Resources == {"forest", "hills", "field", "pasture", "mountain", "desert", "none"}

\* the value JavaScript gives for a read past the end of an array
UndefinedNumber == -1

\* the value Map.get gives for an absent key
Undefined == 0

\* new Tile(resource, number, q, r)
Tile(resource, number, q, r) ==
    [resource |-> resource, number |-> number, position |-> GridPosition(q, r)]

\* Tile.copy: a new Tile with a new GridPosition
Tile_copy(t) == Tile(t.resource, t.number, t.position.q, t.position.r)

\* tile.setNumber(number) on the object at reference id
setNumber(h, id, number) == [h EXCEPT ![id].number = number]

\* tile.setPosition(position) on the object at reference id
setPosition(h, id, position) == [h EXCEPT ![id].position = position]

\* the reference a new object gets: one not in use
Alloc(h) == CHOOSE i \in 1..(Cardinality(DOMAIN h) + 1) : i \notin DOMAIN h

\* the heap with a new object t
New(h, t) == (Alloc(h) :> t) @@ h

(***************************************************************************)
(* The JavaScript Map: entries <<key, value>> in insertion order.          *)
(***************************************************************************)
MapHas(m, key) == \E i \in 1..Len(m) : m[i][1] = key

MapGet(m, key) ==
    IF MapHas(m, key) THEN m[CHOOSE i \in 1..Len(m) : m[i][1] = key][2]
    ELSE Undefined

\* Map.set: an existing key keeps its place, a new key is appended
MapSet(m, key, value) ==
    IF MapHas(m, key)
    THEN [i \in 1..Len(m) |-> IF m[i][1] = key THEN <<key, value>> ELSE m[i]]
    ELSE Append(m, <<key, value>>)

\* Array.from(map.values())
MapValues(m) == [i \in 1..Len(m) |-> m[i][2]]

MapKeys(m) == {m[i][1] : i \in 1..Len(m)}

(***************************************************************************)
(* catan.tsx: Board.  A board operation works on w = [heap, tiles]: the    *)
(* heap of Tile objects and the board's tile map.                          *)
(***************************************************************************)
RESOURCE_TILE_AMOUNTS ==
    << <<"forest", 4>>, <<"hills", 3>>, <<"field", 4>>,
       <<"pasture", 4>>, <<"mountain", 3>>, <<"desert", 1>> >>

NUMBER_TOKEN_AMOUNTS ==
    << <<2, 1>>, <<3, 2>>, <<4, 2>>, <<5, 2>>, <<6, 2>>,
       <<8, 2>>, <<9, 2>>, <<10, 2>>, <<11, 2>>, <<12, 1>> >>

SPIRAL_ORDER == <<5, 2, 6, 3, 8, 10, 9, 12, 11, 4, 8, 10, 9, 4, 5, 6, 3, 11>>

spiralPositions ==
    << <<0, -2>>, <<1, -2>>, <<2, -2>>, <<2, -1>>, <<2, 0>>, <<1, 1>>, <<0, 2>>,
       <<-1, 2>>, <<-2, 2>>, <<-2, 1>>, <<-2, 0>>, <<-1, -1>>,
       <<0, -1>>, <<1, -1>>, <<1, 0>>, <<0, 1>>, <<-1, 1>>, <<-1, 0>>, <<0, 0>> >>

\* for (const x of xs) st = body(st, x), from the i-th element on; the loop
\* state st, a record, is evaluated at every iteration
RECURSIVE forEach(_, _, _, _)
forEach(body(_, _), xs, i, st) ==
    IF i > Len(xs) \/ DOMAIN st = {} THEN st
    ELSE forEach(body, xs, i + 1, body(st, xs[i]))

\* Board.getTile
getTile(tiles, position) == MapGet(tiles, getKey(position))

\* Board.addTile of the Tile object at reference id
addTile(w, id) ==
    [w EXCEPT !.tiles = MapSet(w.tiles, getKey(w.heap[id].position), id)]

\* the body of the loop of rotateBoard for the tile at reference id
rotateBoardStep_keepsKey(w, id, pivot, rotations) ==
    LET newPosition == rotate(w.heap[id].position, pivot, rotations)
    IN  [heap  |-> setPosition(w.heap, id, newPosition),
         tiles |-> w.tiles]

rotateBoardStep(w, id, pivot, rotations) ==
    LET newPosition == rotate(w.heap[id].position, pivot, rotations)
    IN  [heap  |-> setPosition(w.heap, id, newPosition),
         tiles |-> MapSet(w.tiles, getKey(newPosition), id)]

\* Board.rotateBoard: iterates a snapshot of the values and never deletes a key
rotateBoard(w, pivot, rotations) ==
    forEach(LAMBDA st, id : rotateBoardStep(st, id, pivot, rotations),
            MapValues(w.tiles), 1, w)

\* Object.entries(bank).filter(([_, count]) => count > 0)
available(bank) == SelectSeq(bank, LAMBDA e : e[2] > 0)

\* Math.floor(Math.random() * length) for the k-th draw of the sequence rnd
Draw(rnd, k, length) == (rnd.a + rnd.b * k) % length

\* bank[selected] = selectedCount - 1
takeFrom(bank, selected) ==
    [i \in 1..Len(bank) |->
        IF bank[i][1] = selected[1] THEN <<bank[i][1], selected[2] - 1>> ELSE bank[i]]

\* SPIRAL_ORDER[numberIndex], numberIndex counted from 0
spiralOrderAt(numberIndex) ==
    IF numberIndex < Len(SPIRAL_ORDER) THEN SPIRAL_ORDER[numberIndex + 1]
    ELSE UndefinedNumber

\* one position of the spiral walk: st = [w, numberIndex]
spiralStep_countsDesert(st, pos) ==
    LET tile == getTile(st.w.tiles, GridPosition(pos[1], pos[2]))
    IN  IF tile # Undefined /\ st.w.heap[tile].resource # "desert"
        THEN [w |-> [st.w EXCEPT !.heap =
                        setNumber(st.w.heap, tile, spiralOrderAt(st.numberIndex))],
              numberIndex |-> st.numberIndex + 1]
        ELSE [st EXCEPT !.numberIndex = st.numberIndex + 1]

spiralStep(st, pos) ==
    LET tile == getTile(st.w.tiles, GridPosition(pos[1], pos[2]))
    IN  IF tile # Undefined /\ st.w.heap[tile].resource # "desert"
        THEN [w |-> [st.w EXCEPT !.heap =
                        setNumber(st.w.heap, tile, spiralOrderAt(st.numberIndex))],
              numberIndex |-> st.numberIndex + 1]
        ELSE st

\* one tile of the random walk: st = [w, numberBank, k], k the draws made
randomStep_noDecrement(st, id, rnd) ==
    IF st.w.heap[id].resource = "desert" THEN st
    ELSE LET availableNumberEntries == available(st.numberBank)
         IN  IF Len(availableNumberEntries) > 0
             THEN LET selected == availableNumberEntries[
                          Draw(rnd, st.k, Len(availableNumberEntries)) + 1]
                  IN  [w |-> [st.w EXCEPT !.heap = setNumber(st.w.heap, id, selected[1])],
                       numberBank |-> st.numberBank,
                       k |-> st.k + 1]
             ELSE st

randomStep(st, id, rnd) ==
    IF st.w.heap[id].resource = "desert" THEN st
    ELSE LET availableNumberEntries == available(st.numberBank)
         IN  IF Len(availableNumberEntries) > 0
             THEN LET selected == availableNumberEntries[
                          Draw(rnd, st.k, Len(availableNumberEntries)) + 1]
                  IN  [w |-> [st.w EXCEPT !.heap = setNumber(st.w.heap, id, selected[1])],
                       numberBank |-> takeFrom(st.numberBank, selected),
                       k |-> st.k + 1]
             ELSE st

\* Board.generateNumberTokens(method); rnd gives the draws of Math.random
generateNumberTokens(w, method, rnd) ==
    IF method = "spiral"
    THEN forEach(spiralStep, spiralPositions, 1, [w |-> w, numberIndex |-> 0]).w
    ELSE forEach(LAMBDA st, id : randomStep(st, id, rnd), MapValues(w.tiles), 1,
                 [w |-> w, numberBank |-> NUMBER_TOKEN_AMOUNTS, k |-> 0]).w

\* one (q, r) of the nested loops of generateRandomBoard: st = [w, tileBank, k]
generateTile_noDecrement(st, q, r, rnd) ==
    IF MathAbs(getS(GridPosition(q, r))) > 2 THEN st
    ELSE LET availableResources == available(st.tileBank)
             has == Len(availableResources) > 0
             selected == availableResources[Draw(rnd, st.k, Len(availableResources)) + 1]
             resource == IF has THEN selected[1] ELSE "none"
             h2 == New(st.w.heap, Tile(resource, 0, q, r))
         IN  [w |-> addTile([heap |-> h2, tiles |-> st.w.tiles], Alloc(st.w.heap)),
              tileBank |-> st.tileBank,
              k |-> IF has THEN st.k + 1 ELSE st.k]

generateTile(st, q, r, rnd) ==
    IF MathAbs(getS(GridPosition(q, r))) > 2 THEN st
    ELSE LET availableResources == available(st.tileBank)
             has == Len(availableResources) > 0
             selected == availableResources[Draw(rnd, st.k, Len(availableResources)) + 1]
             resource == IF has THEN selected[1] ELSE "none"
             h2 == New(st.w.heap, Tile(resource, 0, q, r))
         IN  [w |-> addTile([heap |-> h2, tiles |-> st.w.tiles], Alloc(st.w.heap)),
              tileBank |-> IF has THEN takeFrom(st.tileBank, selected) ELSE st.tileBank,
              k |-> IF has THEN st.k + 1 ELSE st.k]

\* for (q = -2..2) for (r = -2..2): the pairs in the order of the loops
generatePositions == [i \in 1..25 |-> <<((i - 1) \div 5) - 2, ((i - 1) % 5) - 2>>]

\* Board.generateRandomBoard(method) with the objects allocated in heap h;
\* rndTiles and rndNumbers give the draws of Math.random
generateRandomBoard(h, method, rndTiles, rndNumbers) ==
    generateNumberTokens(
        forEach(LAMBDA st, pos : generateTile(st, pos[1], pos[2], rndTiles),
                generatePositions, 1,
                [w |-> [heap |-> h, tiles |-> <<>>],
                 tileBank |-> RESOURCE_TILE_AMOUNTS, k |-> 0]).w,
        method, rndNumbers)

\* newBoard.addTile(tile.copy()) for the tile at reference id
copyStep(w, id) ==
    addTile([heap |-> New(w.heap, Tile_copy(w.heap[id])), tiles |-> w.tiles],
            Alloc(w.heap))

copy_shallow(h, tiles) == [heap |-> h, tiles |-> tiles]

\* Board.copy of the board with tile map tiles: the new board and the heap
copy(h, tiles) == forEach(copyStep, MapValues(tiles), 1, [heap |-> h, tiles |-> <<>>])

(***************************************************************************)
(* The state: heap holds the Tile objects, bd.b is the board in use and    *)
(* bd.c the board copy() returned last (hasCopy), and last records the     *)
(* operation that led to the state and, in origin, how the board b was     *)
(* first made (addTile or generateRandomBoard).                            *)
(***************************************************************************)
Boards == {"b", "c"}

Methods == {"spiral", "random"}

Origin == GridPosition(0, 0)

\* the references a tile map holds
Refs(tiles) == {tiles[i][2] : i \in 1..Len(tiles)}

\* garbage collection: objects no board refers to are gone
Collect(h, boards) ==
    LET live == UNION {Refs(boards[t]) : t \in Boards}
    IN  [id \in DOMAIN h \cap live |-> h[id]]

World(t) == [heap |-> heap, tiles |-> bd[t]]

Randoms == [a : 0..MaxSeed, b : 0..MaxSeed]

NoCall == [pos |-> Origin, pivot |-> Origin, rotations |-> 0, out |-> <<>>]

Op(name, t, pivot, rotations, method) ==
    [op |-> name, target |-> t, pivot |-> pivot, rotations |-> rotations,
     method |-> method, call |-> NoCall, n |-> last.n + 1, origin |-> last.origin]

Init ==
    /\ heap = <<>>
    /\ bd = [t \in Boards |-> <<>>]
    /\ hasCopy = FALSE
    /\ last = [op |-> "new", target |-> "b", pivot |-> Origin, rotations |-> 0,
               method |-> "spiral", call |-> NoCall, n |-> 0, origin |-> "none"]

\* the state after an operation on board t that left the world w
Commit(t, w, op) ==
    /\ bd' = [bd EXCEPT ![t] = w.tiles]
    /\ heap' = Collect(w.heap, bd')
    /\ last' = op

(***************************************************************************)
(* Spec: boards built tile by tile, with every operation of Board.         *)
(***************************************************************************)
\* board.addTile(new Tile(resource, number, q, r))
AddTile(resource, number, q, r) ==
    /\ last.op \in {"new", "addTile"}
    /\ Cardinality(Refs(bd["b"])) < MaxTiles
    /\ LET id == Alloc(heap)
           w  == addTile([heap |-> New(heap, Tile(resource, number, q, r)),
                          tiles |-> bd["b"]], id)
       IN  Commit("b", w, [Op("addTile", "b", GridPosition(q, r), 0, "spiral")
                              EXCEPT !.n = last.n, !.origin = "addTile"])
    /\ UNCHANGED hasCopy

\* bd[t].rotateBoard(pivot, rotations)
RotateBoard(t, pivot, rotations) ==
    /\ last.n < MaxOps
    /\ t = "c" => hasCopy
    /\ LET w == rotateBoard(World(t), pivot, rotations)
       IN  Commit(t, w, Op("rotateBoard", t, pivot, rotations, "spiral"))
    /\ UNCHANGED hasCopy

\* bd[t].generateNumberTokens(method)
GenerateNumberTokens(t, method, rnd) ==
    /\ last.n < MaxOps
    /\ t = "c" => hasCopy
    /\ Commit(t, generateNumberTokens(World(t), method, rnd),
              Op("generateNumberTokens", t, Origin, 0, method))
    /\ UNCHANGED hasCopy

\* bd[t].getTile(position).setNumber(number), for the i-th entry of the map
SetNumber(t, i, number) ==
    /\ last.n < MaxOps
    /\ t = "c" => hasCopy
    /\ i \in 1..Len(bd[t])
    /\ Commit(t, [heap |-> setNumber(heap, bd[t][i][2], number), tiles |-> bd[t]],
              Op("setNumber", t, Origin, 0, "spiral"))
    /\ UNCHANGED hasCopy

\* c = b.copy()
Copy ==
    /\ last.n < MaxOps
    /\ Commit("c", copy(heap, bd["b"]), Op("copy", "b", Origin, 0, "spiral"))
    /\ hasCopy' = TRUE

AddPositions == {Origin, GridPosition(1, 0), GridPosition(0, 1), GridPosition(-1, 0)}

Pivots == {Origin, GridPosition(1, 0)}

BoardRotations == {-1, 1, 6}

Next ==
    \/ \E res \in {"forest", "desert"}, p \in AddPositions : AddTile(res, 0, p.q, p.r)
    \/ \E t \in Boards, pivot \in Pivots, k \in BoardRotations : RotateBoard(t, pivot, k)
    \/ \E t \in Boards, m \in Methods, rnd \in Randoms : GenerateNumberTokens(t, m, rnd)
    \/ \E t \in Boards, i \in 1..MaxTiles : SetNumber(t, i, 7)
    \/ Copy

Spec == Init /\ [][Next]_vars

(***************************************************************************)
(* SpecPos: the pure functions of GridPosition applied to drawn inputs.    *)
(***************************************************************************)
\* p.rotate(pivot, rotations)
Rotate(p, pivot, rotations) ==
    /\ last.op = "new"
    /\ last' = [last EXCEPT !.op = "rotate",
                            !.call = [pos |-> p, pivot |-> pivot, rotations |-> rotations,
                                      out |-> <<rotate(p, pivot, rotations)>>]]
    /\ UNCHANGED <<heap, bd, hasCopy>>

\* p.getNeighbors()
GetNeighbors(p) ==
    /\ last.op = "new"
    /\ last' = [last EXCEPT !.op = "getNeighbors",
                            !.call = [pos |-> p, pivot |-> Origin, rotations |-> 0,
                                      out |-> getNeighbors(p)]]
    /\ UNCHANGED <<heap, bd, hasCopy>>

\* board.getKey(p) and board.getKey(other), the keys of two positions
GetKey(p, other) ==
    /\ last.op = "new"
    /\ last' = [last EXCEPT !.op = "getKey",
                            !.call = [pos |-> p, pivot |-> other, rotations |-> 0,
                                      out |-> <<getKey(p), getKey(other)>>]]
    /\ UNCHANGED <<heap, bd, hasCopy>>

Positions == [q : -MaxAdd..MaxAdd, r : -MaxAdd..MaxAdd]

\* the edges and the vertices a tile owns are numbered 0, 1, 2
Discriminators == {0, 1, 2}

EdgePositions == {EdgePosition(p.q, p.r, e) : p \in Positions, e \in Discriminators}

VertexPositions == {VertexPosition(p.q, p.r, v) : p \in Positions, v \in Discriminators}

KeyedPositions == Positions \cup EdgePositions \cup VertexPositions

NextPos ==
    \/ \E p \in Positions, pivot \in Positions, k \in -MaxRot..MaxRot : Rotate(p, pivot, k)
    \/ \E p \in Positions : GetNeighbors(p)
    \/ \E p \in KeyedPositions, other \in KeyedPositions : GetKey(p, other)

SpecPos == Init /\ [][NextPos]_vars

(***************************************************************************)
(* SpecApp: the full board of the application, as App holds it in bd.b.    *)
(***************************************************************************)
\* A new board keeps nothing of the board it replaces, so the boards of the
\* application are followed from the state in which App has none yet.
\* setBoard(Board.generateRandomBoard(method))
NewRandomBoard(method, rndTiles, rndNumbers) ==
    /\ last.op = "new"
    /\ Commit("b", generateRandomBoard(heap, method, rndTiles, rndNumbers),
              [Op("generateRandomBoard", "b", Origin, 0, method)
                  EXCEPT !.n = 0, !.origin = "generateRandomBoard"])
    /\ UNCHANGED hasCopy

NonDesert == <<"forest", "hills", "field", "pasture", "mountain">>

\* board.addTile(new Tile(resource, number, q, r)) for the tile of spiral
\* index i of a board with its desert at spiral index d (d = 19: no desert)
fillStep(w, i, d, rnd) ==
    LET resource == IF i = d + 1 THEN "desert"
                    ELSE NonDesert[Draw(rnd, i, Len(NonDesert)) + 1]
        number   == Draw(rnd, i + rnd.b, 13)
    IN  addTile([heap  |-> New(w.heap, Tile(resource, number, spiralPositions[i][1],
                                            spiralPositions[i][2])),
                 tiles |-> w.tiles], Alloc(w.heap))

\* a new board filled through addTile at the 19 positions, with one desert
\* or none
FillBoard(d, rnd) ==
    /\ last.op = "new"
    /\ Commit("b", forEach(LAMBDA w, i : fillStep(w, i, d, rnd),
                           [i \in 1..Len(spiralPositions) |-> i], 1,
                           [heap |-> heap, tiles |-> <<>>]),
              [Op("addTile", "b", Origin, 0, "spiral")
                  EXCEPT !.n = 0, !.origin = "addTile"])
    /\ UNCHANGED hasCopy

\* board.generateNumberTokens(method)
RedrawTokens(method, rnd) ==
    /\ last.n < MaxAppOps
    /\ bd["b"] # <<>>
    /\ Commit("b", generateNumberTokens(World("b"), method, rnd),
              Op("generateNumberTokens", "b", Origin, 0, method))
    /\ UNCHANGED hasCopy

\* board.rotateBoard(new GridPosition(0, 0), rotations)
RotateInPlace(rotations) ==
    /\ last.n < MaxAppOps
    /\ bd["b"] # <<>>
    /\ Commit("b", rotateBoard(World("b"), Origin, rotations),
              Op("rotateBoard", "b", Origin, rotations, "spiral"))
    /\ UNCHANGED hasCopy

\* board = board.copy()
CopyBoard ==
    /\ last.n < MaxAppOps
    /\ bd["b"] # <<>>
    /\ Commit("b", copy(heap, bd["b"]), Op("copy", "b", Origin, 0, "spiral"))
    /\ UNCHANGED hasCopy

\* App.rotateBoard: newBoard = board.copy(); newBoard.rotateBoard(pivot,
\* rotations); setBoard(newBoard)
AppRotateBoard(pivot, rotations) ==
    /\ last.n < MaxAppOps
    /\ bd["b"] # <<>>
    /\ Commit("b", rotateBoard(copy(heap, bd["b"]), pivot, rotations),
              Op("App.rotateBoard", "b", pivot, rotations, "spiral"))
    /\ UNCHANGED hasCopy

NextApp ==
    \/ \E m \in Methods, rt \in Randoms, rn \in Randoms : NewRandomBoard(m, rt, rn)
    \/ \E d \in 0..Len(spiralPositions), rnd \in Randoms : FillBoard(d, rnd)
    \/ \E m \in Methods, rnd \in Randoms : RedrawTokens(m, rnd)
    \/ \E k \in BoardRotations : RotateInPlace(k)
    \/ CopyBoard
    \/ \E k \in {-1, 1} : AppRotateBoard(Origin, k)

SpecApp == Init /\ [][NextApp]_vars

(***************************************************************************)
(* Properties of the boards of Spec.                                       *)
(***************************************************************************)
Other(t) == IF t = "b" THEN "c" ELSE "b"

\* the step taken is the operation name on some board
Did(name) == last'.op = name /\ last'.n = last.n + 1

\* the board b has been built through addTile alone
BuiltByAddTile == last.op \in {"new", "addTile"}

\* C2: on a board built through addTile, rotateBoard(origin, 1) followed by
\* rotateBoard(origin, -1) gives every tile its original stored position
\* back, and getTile at that position returns the tile.
C2_RoundTripRestores ==
    BuiltByAddTile =>
        LET there == rotateBoard(World("b"), Origin, 1)
            back  == rotateBoard(there, Origin, -1)
        IN  \A id \in Refs(bd["b"]) :
                /\ back.heap[id].position = heap[id].position
                /\ getTile(back.tiles, heap[id].position) = id

\* every entry of the tile map is held under the key of its tile's position
KeyedByPosition(h, tiles) ==
    \A i \in 1..Len(tiles) : tiles[i][1] = getKey(h[tiles[i][2]].position)

\* no tile is held under two keys
NoTileTwice(tiles) ==
    \A i, j \in 1..Len(tiles) : tiles[i][2] = tiles[j][2] => i = j

\* C3: rotateBoard(pivot, rotations) re-keys every tile: the tile map keeps
\* its number of entries, every entry is held under the key of its tile's
\* stored position, and no tile is held under two keys.
C3_RotateRekeys ==
    [][Did("rotateBoard") =>
         LET t == last'.target
         IN  /\ Len(bd'[t]) = Len(bd[t])
             /\ KeyedByPosition(heap', bd'[t])
             /\ NoTileTwice(bd'[t])]_vars

\* the tiles of board t, as the board shows them: key, number, position
SameBoard(t) ==
    /\ bd'[t] = bd[t]
    /\ \A id \in Refs(bd[t]) : id \in DOMAIN heap' /\ heap'[id] = heap[id]

\* C4: once c = b.copy(), setNumber, generateNumberTokens and rotateBoard on
\* one of the two boards leave every tile of the other board with the same
\* number, the same stored position and the same key.
C4_CopySharesNothing ==
    [][(hasCopy /\ (Did("setNumber") \/ Did("generateNumberTokens") \/ Did("rotateBoard")))
         => SameBoard(Other(last'.target))]_vars

\* a number set on a tile of the copy that the source's tile does not show
C4_Witness ==
    /\ hasCopy
    /\ last.op = "setNumber"
    /\ last.target = "c"
    /\ \E k \in MapKeys(bd["b"]) \cap MapKeys(bd["c"]) :
          /\ heap[MapGet(bd["c"], k)].number = 7
          /\ heap[MapGet(bd["b"], k)].number # 7

\* C5: copy() returns a board with the key set of its source and, under each
\* key, a tile with the resource, number and position of the source's tile.
C5_CopyDuplicatesEveryKey ==
    last.op = "copy" =>
        /\ MapKeys(bd["c"]) = MapKeys(bd["b"])
        /\ \A k \in MapKeys(bd["b"]) :
              heap[MapGet(bd["c"], k)] = heap[MapGet(bd["b"], k)]

\* the board tiles has a tile at position p, stored with that position
TileAt(h, tiles, p) ==
    /\ getTile(tiles, p) # Undefined
    /\ equals(h[getTile(tiles, p)].position, p)

\* C8: rotateBoard(p, 1) on a board with a tile at p and a tile at the i-th
\* neighbor of p leaves the first at p and moves the second to the
\* ((i+1) mod 6)-th neighbor, where getTile returns it.
C8_RotateFollowsNeighbors ==
    [][(Did("rotateBoard") /\ last'.rotations = 1) =>
         LET t == last'.target
             p == last'.pivot
         IN  \A i \in 1..6 :
                (TileAt(heap, bd[t], p) /\ TileAt(heap, bd[t], getNeighbors(p)[i])) =>
                    LET atPivot    == getTile(bd[t], p)
                        atNeighbor == getTile(bd[t], getNeighbors(p)[i])
                        next       == getNeighbors(p)[(i % 6) + 1]
                    IN  /\ atPivot \in DOMAIN heap'
                        /\ atNeighbor \in DOMAIN heap'
                        /\ equals(heap'[atPivot].position, p)
                        /\ equals(heap'[atNeighbor].position, next)
                        /\ getTile(bd'[t], next) = atNeighbor]_vars

(***************************************************************************)
(* Properties of GridPosition, under SpecPos.                              *)
(***************************************************************************)
\* C9: rotate(p, pivot, 0) is value-equal to p, and rotate(p, pivot, r) is
\* value-equal to rotate(p, pivot, r mod 6) for every integer r, with r mod 6
\* in 0..5.
C9_RotateModSix ==
    last.op = "rotate" =>
        LET c == last.call
        IN  /\ c.rotations = 0 => equals(c.out[1], c.pos)
            /\ equals(c.out[1], rotate(c.pos, c.pivot, c.rotations % 6))

\* a negative rotation count and one above 5 that move the position
C9_Witness ==
    /\ last.op = "rotate"
    /\ last.call.rotations < -6
    /\ ~equals(last.call.out[1], last.call.pos)

CubeDistance(p, o) ==
    LET dq == MathAbs(p.q - o.q)
        dr == MathAbs(p.r - o.r)
        ds == MathAbs(getS(p) - getS(o))
    IN  IF dq >= dr /\ dq >= ds THEN dq ELSE IF dr >= ds THEN dr ELSE ds

NeighborOffsets == << <<1, 0>>, <<1, -1>>, <<0, -1>>, <<-1, 0>>, <<-1, 1>>, <<0, 1>> >>

\* C10: getNeighbors(p) returns 6 pairwise distinct positions at cube-distance
\* 1 from p, in the order of the offsets (+1,0), (+1,-1), (0,-1), (-1,0),
\* (-1,+1), (0,+1).
C10_SixNeighbors ==
    last.op = "getNeighbors" =>
        LET p == last.call.pos
            out == last.call.out
        IN  /\ Len(out) = 6
            /\ \A i, j \in 1..Len(out) : equals(out[i], out[j]) => i = j
            /\ \A i \in 1..Len(out) :
                  /\ CubeDistance(out[i], p) = 1
                  /\ i <= 6 => /\ out[i].q = p.q + NeighborOffsets[i][1]
                               /\ out[i].r = p.r + NeighborOffsets[i][2]

\* the neighbors of a position away from the origin
C10_Witness ==
    /\ last.op = "getNeighbors"
    /\ last.call.pos = GridPosition(-1, 1)
    /\ Len(last.call.out) = 6

(***************************************************************************)
(* Properties of the full board, under SpecApp.                            *)
(***************************************************************************)
\* the number of tiles of the board with the given resource
CountResource(h, tiles, resource) ==
    Cardinality({id \in Refs(tiles) : h[id].resource = resource})

\* the number of tiles of the board, desert apart, that show the number
CountNumber(h, tiles, number) ==
    Cardinality({id \in Refs(tiles) :
                    h[id].resource # "desert" /\ h[id].number = number})

\* C1: a board returned by generateRandomBoard has exactly 19 tiles: 4 forest,
\* 3 hills, 4 field, 4 pasture, 3 mountain and 1 desert, none of resource
\* 'none'.
C1_GeneratedResources ==
    last.op = "generateRandomBoard" =>
        /\ Len(bd["b"]) = 19
        /\ Cardinality(Refs(bd["b"])) = 19
        /\ CountResource(heap, bd["b"], "forest") = 4
        /\ CountResource(heap, bd["b"], "hills") = 3
        /\ CountResource(heap, bd["b"], "field") = 4
        /\ CountResource(heap, bd["b"], "pasture") = 4
        /\ CountResource(heap, bd["b"], "mountain") = 3
        /\ CountResource(heap, bd["b"], "desert") = 1
        /\ CountResource(heap, bd["b"], "none") = 0

\* a generated board whose draws put the desert away from the last position
C1_Witness ==
    /\ last.op = "generateRandomBoard"
    /\ last.method = "random"
    /\ Len(bd["b"]) = 19
    /\ heap[getTile(bd["b"], GridPosition(2, 0))].resource # "desert"

\* the board has 19 tiles, one stored at each position of the spiral, and
\* exactly one of them is the desert
FullOneDesert(h, tiles) ==
    /\ Len(tiles) = 19
    /\ Cardinality(Refs(tiles)) = 19
    /\ \A i \in 1..Len(spiralPositions) :
          TileAt(h, tiles, GridPosition(spiralPositions[i][1], spiralPositions[i][2]))
    /\ CountResource(h, tiles, "desert") = 1

\* the tile at the i-th position of the spiral, i counted from 1
SpiralTile(tiles, i) ==
    getTile(tiles, GridPosition(spiralPositions[i][1], spiralPositions[i][2]))

\* the index, counted from 1, of the desert in the spiral
DesertIndex(h, tiles) ==
    CHOOSE i \in 1..Len(spiralPositions) : h[SpiralTile(tiles, i)].resource = "desert"

\* C6: on a full board with one desert, at index d of the spiral,
\* generateNumberTokens('spiral') gives the tile at index i the number
\* SPIRAL_ORDER[i] when i < d and SPIRAL_ORDER[i-1] when i > d (indices from
\* 0), and does not write the number of the desert.
C6_SpiralFollowsDesert ==
    [][(Did("generateNumberTokens") /\ last'.method = "spiral"
          /\ FullOneDesert(heap, bd["b"])) =>
         LET d == DesertIndex(heap, bd["b"])
         IN  \A i \in 1..Len(spiralPositions) :
                LET tile == SpiralTile(bd["b"], i)
                IN  /\ bd'["b"] = bd["b"]
                    /\ i < d => heap'[tile].number = SPIRAL_ORDER[i]
                    /\ i > d => heap'[tile].number = SPIRAL_ORDER[i - 1]
                    /\ i = d => heap'[tile].number = heap[tile].number]_vars

\* tokens laid in the spiral on a board whose desert is neither first nor
\* last in the spiral and keeps a number it had
C6_Witness ==
    /\ last.op = "generateNumberTokens"
    /\ last.method = "spiral"
    /\ FullOneDesert(heap, bd["b"])
    /\ DesertIndex(heap, bd["b"]) \in 2..18
    /\ heap[SpiralTile(bd["b"], DesertIndex(heap, bd["b"]))].number # 0
    /\ heap[SpiralTile(bd["b"], 19)].number = 11

\* the standard supply of number tokens
Supply(number) ==
    IF number \in {2, 12} THEN 1
    ELSE IF number \in {3, 4, 5, 6, 8, 9, 10, 11} THEN 2
    ELSE 0

\* C7: after generateRandomBoard the numbers on the 18 tiles other than the
\* desert are exactly the standard supply (one each of 2 and 12, two each of
\* 3, 4, 5, 6, 8, 9, 10, 11), and the desert keeps number 0.
C7_GeneratedNumbers ==
    last.op = "generateRandomBoard" =>
        /\ \A id \in Refs(bd["b"]) :
              IF heap[id].resource = "desert" THEN heap[id].number = 0
              ELSE heap[id].number \in 2..12
        /\ \A number \in 2..12 : CountNumber(heap, bd["b"], number) = Supply(number)

\* a board generated with the random method, with numbers out of the order
\* of the spiral
C7_Witness ==
    /\ last.op = "generateRandomBoard"
    /\ last.method = "random"
    /\ CountNumber(heap, bd["b"], 6) = 2
    /\ heap[getTile(bd["b"], GridPosition(0, -2))].number # 5
    /\ heap[getTile(bd["b"], GridPosition(0, -2))].resource # "desert"

\* the tiles of the board that are not desert
NonDesertTiles(h, tiles) == {id \in Refs(tiles) : h[id].resource # "desert"}

\* C11: on a board built through addTile with more tiles other than desert
\* than the 18 number tokens, generateNumberTokens (either method) gives no
\* tile an undefined number or a number that is no token; when every tile
\* was unset (number 0) the 18 tokens are laid once each and the tile left
\* without a token stays at number 0.
C11_ExhaustionLeavesUnset ==
    [][(Did("generateNumberTokens") /\ last.op = "addTile"
          /\ Cardinality(NonDesertTiles(heap, bd["b"])) > Len(SPIRAL_ORDER)) =>
         /\ bd'["b"] = bd["b"]
         /\ \A id \in Refs(bd["b"]) :
               /\ heap'[id].number # UndefinedNumber
               /\ heap'[id].number # heap[id].number => Supply(heap'[id].number) > 0
         /\ (\A id \in Refs(bd["b"]) : heap[id].number = 0) =>
               /\ \A number \in 2..12 :
                     CountNumber(heap', bd["b"], number) = Supply(number)
               /\ CountNumber(heap', bd["b"], 0) = 1]_vars

(***************************************************************************)
(* Properties of the keys, under SpecPos.                                  *)
(***************************************************************************)
\* the class of a position object
KindOf(p) ==
    IF "e" \in DOMAIN p THEN "EdgePosition"
    ELSE IF "v" \in DOMAIN p THEN "VertexPosition"
    ELSE "GridPosition"

\* C12: the keys of an edge and of a vertex never collide, not even with the
\* same q, r and discriminator, and both differ from the key of every
\* GridPosition; the keys of two positions of the same kind are equal exactly
\* when all their fields are equal.
C12_KeysNeverCollide ==
    last.op = "getKey" =>
        LET p     == last.call.pos
            other == last.call.pivot
            out   == last.call.out
        IN  /\ KindOf(p) # KindOf(other) => out[1] # out[2]
            /\ KindOf(p) = KindOf(other) => (out[1] = out[2] <=> p = other)

(***************************************************************************)
(* The board the application holds, under SpecApp.                         *)
(***************************************************************************)
\* the positions with |q|, |r|, |s| <= 2
HexRange == {p \in [q : -2..2, r : -2..2] : MathAbs(getS(p)) <= 2}

\* C13: a board that began with generateRandomBoard() keeps, through every
\* sequence of copy(), rotateBoard((0,0), k) and generateNumberTokens(method),
\* exactly 19 entries in its tile map, one for each position with |q|, |r|,
\* |s| <= 2, each held under the key of its tile's stored position, and the
\* generated resource counts: 4 forest, 3 hills, 4 field, 4 pasture,
\* 3 mountain, 1 desert.
C13_AppBoardKeepsShape ==
    last.origin = "generateRandomBoard" =>
        /\ Len(bd["b"]) = 19
        /\ {bd["b"][i][1] : i \in 1..Len(bd["b"])} = {getKey(p) : p \in HexRange}
        /\ KeyedByPosition(heap, bd["b"])
        /\ CountResource(heap, bd["b"], "forest") = 4
        /\ CountResource(heap, bd["b"], "hills") = 3
        /\ CountResource(heap, bd["b"], "field") = 4
        /\ CountResource(heap, bd["b"], "pasture") = 4
        /\ CountResource(heap, bd["b"], "mountain") = 3
        /\ CountResource(heap, bd["b"], "desert") = 1

\* a generated board after two operations, the second a rotateBoard in place
\* that moved another tile under the first key of the map
C13_Witness ==
    /\ last.origin = "generateRandomBoard"
    /\ last.op = "rotateBoard"
    /\ last.rotations = 1
    /\ last.n = MaxAppOps
    /\ Len(bd["b"]) = 19
    /\ ~equals(heap[1].position, GridPosition(-2, 0))
    /\ bd["b"][1][1] = getKey(GridPosition(-2, 0))

====
